---- MODULE Spec2Model ----
(***************************************************************************)
(* Model of CharacterGenerator (index.py): layer selection, DNA            *)
(* fingerprinting, the registry generated_dnas, the PNG and GIF            *)
(* compositing paths, generate_character and generate_collection.          *)
(*                                                                         *)
(* A file is a record [stem, ext] (the name is stem.ext); a directory is   *)
(* [exists, files]; a path is <<layer, file>> (base_dir/layer/file).       *)
(* A Python dict is a sequence of [k, v] entries in insertion order.       *)
(* An image is a sequence of frames; a frame is [mode, px] where px is the *)
(* stack of sources pasted so far, bottom first.                           *)
(* layers_order is drawn from orders without repeated names; a file that   *)
(* cannot be read makes the compositing step raise, at any edition.        *)
(***************************************************************************)
EXTENDS Integers, Sequences, FiniteSets, TLC

\* ------------------------------------------------------------- bounds
MaxTotal == 3
MaxAttempts == 2
MaxFrames == 2
MaxCombinations == 4
MaxWork == 12

\* ------------------------------------------------------------- inputs
File(stem, ext) == [stem |-> stem, ext |-> ext]

Dir(exists, files) == [exists |-> exists, files |-> files]

Absent == Dir(FALSE, {})

LayerNames == <<"Background", "Body", "Eyes">>

\* Every file that occurs in some directory, in a fixed enumeration.
AllFiles ==
    << File("bg1", "png"), File("bg2", "GIF"),
       File("b1", "png"), File("b2", "png"), File("notes", "txt"),
       File("e1", "png"), File("e2", "gif"), File("e3", "gif") >>

\* The directory contents the model draws each layer's directory from.
DirChoices(layer) ==
    CASE layer = "Background" ->
            { Absent,
              Dir(TRUE, {File("bg1", "png")}),
              Dir(TRUE, {File("bg2", "GIF")}),
              Dir(TRUE, {File("bg1", "png"), File("bg2", "GIF")}) }
      [] layer = "Body" ->
            { Absent,
              Dir(TRUE, {File("notes", "txt")}),
              Dir(TRUE, {File("b1", "png")}),
              Dir(TRUE, {File("b1", "png"), File("b2", "png"), File("notes", "txt")}) }
      [] OTHER ->
            { Dir(TRUE, {}),
              Dir(TRUE, {File("e1", "png")}),
              Dir(TRUE, {File("e2", "gif"), File("e3", "gif")}) }

\* The configured layer orders the model draws layers_order from.
OrderChoices ==
    { <<>>,
      <<"Body">>,
      <<"Background", "Body">>,
      <<"Body", "Background">>,
      <<"Background", "Body", "Eyes">>,
      <<"Eyes", "Body", "Background">> }

Range(s) == {s[i] : i \in DOMAIN s}

\* ------------------------------------------------------------- helpers
None == [none |-> TRUE]

\* str.lower() on the extensions that occur.
Lower(ext) ==
    CASE ext = "PNG" -> "png"
      [] ext = "GIF" -> "gif"
      [] ext = "TXT" -> "txt"
      [] OTHER -> ext

\* dict[k] = v: an existing key keeps its position, a new key goes last.
DictSet(d, k, v) ==
    IF \E i \in DOMAIN d : d[i].k = k
    THEN [i \in DOMAIN d |-> IF d[i].k = k THEN [k |-> k, v |-> v] ELSE d[i]]
    ELSE Append(d, [k |-> k, v |-> v])

DictHas(d, k) == \E i \in DOMAIN d : d[i].k = k

\* dict.get(k): the value, or None.
DictGet(d, k) ==
    IF DictHas(d, k) THEN d[CHOOSE i \in DOMAIN d : d[i].k = k].v ELSE None

\* ------------------------------------------------------------- state
VARIABLES
    catalog,              \* layer name -> directory under base_dir
    nframes,              \* number of frames of the animated Background file
    layers_order,         \* config['layers_order']
    total_characters,     \* config['generation_settings']['total_characters']
    max_attempts,         \* config['generation_settings']['max_generation_attempts']
    generated_dnas,       \* self.generated_dnas
    generated_characters, \* generate_collection's list
    images,               \* edition -> image saved under output_dir/images
    edition,              \* generate_collection's loop variable
    attempt,              \* generate_character's loop variable
    layer_i,              \* position of the selection loop in layers_order
    selected_layers,      \* generate_character's dict
    dna,                  \* generate_character's dna
    image_path,           \* generate_character's image_path
    metadata,             \* generate_character's metadata
    exc,                  \* the exception in flight or that ended the run
    pc,                   \* position of the control flow
    tries,                \* history: selection attempts begun for the current edition
    selections,           \* history: selection attempts begun in the whole run
    built,                \* history: the selected_layers each returned record was built from
    ran,                  \* history: edition -> compositing path that completed
    h_layers,             \* SpecDna: the two dicts handed to _generate_dna_hash
    h_dna,                \* SpecDna: the two digests returned
    g_file,               \* SpecGif: the Background GIF file on disk
    g_image,              \* SpecGif: background_gif, the opened image
    g_frames,             \* SpecGif: number of frames appended to frames
    g_saved               \* SpecGif: the timing and looping written to the output file

vars ==
    << catalog, nframes, layers_order, total_characters, max_attempts,
       generated_dnas, generated_characters, images, edition, attempt, layer_i,
       selected_layers, dna, image_path, metadata, exc, pc, tries, selections,
       built, ran, h_layers, h_dna, g_file, g_image, g_frames, g_saved >>

config == << catalog, nframes, layers_order, total_characters, max_attempts >>

harness == << h_layers, h_dna, g_file, g_image, g_frames, g_saved >>

gif == << g_file, g_image, g_frames, g_saved >>

\* ------------------------------------------------------------- _select_layer_file
\* The eligible files of a directory listing.
LayerFilesOf(dir) == {f \in dir.files : Lower(f.ext) \in {"png", "gif"}}

\* LayerFile with the .lower() of the type lost.
LayerFile_NoLower(layer_name, selected_file) ==
    [ path     |-> <<layer_name, selected_file>>,
      type     |-> selected_file.ext,
      filename |-> selected_file ]

\* What the call returns for one choice of random.choice.
LayerFile(layer_name, selected_file) ==
    [ path     |-> <<layer_name, selected_file>>,
      type     |-> Lower(selected_file.ext),
      filename |-> selected_file ]

\* _select_layer_file avoiding the files that editions already produced used,
\* when the layer has others.
_select_layer_file_AvoidUsed(cat, layer_name) ==
    LET used   == UNION {{built[r][i].v.filename : i \in DOMAIN built[r]} :
                             r \in DOMAIN built}
        unused == LayerFilesOf(cat[layer_name]) \ used
    IN  IF ~cat[layer_name].exists \/ LayerFilesOf(cat[layer_name]) = {}
        THEN {None}
        ELSE {LayerFile(layer_name, f) :
                 f \in IF unused = {} THEN LayerFilesOf(cat[layer_name]) ELSE unused}

\* The set of values _select_layer_file(layer_name) can return.
_select_layer_file(cat, layer_name) ==
    IF ~cat[layer_name].exists
    THEN {None}
    ELSE IF LayerFilesOf(cat[layer_name]) = {}
         THEN {None}
         ELSE {LayerFile(layer_name, f) : f \in LayerFilesOf(cat[layer_name])}

\* ------------------------------------------------------------- _generate_dna_hash
Index(seq, x) == CHOOSE i \in DOMAIN seq : seq[i] = x

Radix == 256

\* The bytes of one "k:path" piece of dna_string, as one digit below Radix.
PieceCode(k, path) ==
    (Index(LayerNames, k) * (Len(LayerNames) + 1) + Index(LayerNames, path[1]))
        * (Len(AllFiles) + 1) + Index(AllFiles, path[2])

\* '|'.join([f"{k}:{v['path']}" for k, v in layers.items()])
DnaString(layers) == [i \in DOMAIN layers |-> PieceCode(layers[i].k, layers[i].v.path)]

RECURSIVE Digest(_)
\* hashlib.sha1(...).hexdigest(), taken to be collision free: the digest is
\* the positional value of the string, so distinct strings give distinct digests.
Digest(str) ==
    IF str = <<>> THEN 0
    ELSE Digest(SubSeq(str, 1, Len(str) - 1)) * Radix + str[Len(str)]

_generate_dna_hash(layers) == Digest(DnaString(layers))

\* ------------------------------------------------------------- PIL
\* Image.open(path): the frames of the file, n of them.
ImageOpen(path, n) == [i \in 1..n |-> [mode |-> "file", px |-> << <<path, i>> >>]]

Convert(frame, mode) == [frame EXCEPT !.mode = mode]

\* Image.new("RGBA", size, (0, 0, 0, 0))
ImageNew(mode) == [mode |-> mode, px |-> <<>>]

\* canvas.paste(im, (0, 0)): im replaces what the canvas held.
Paste(canvas, im) == [canvas EXCEPT !.px = im.px]

\* canvas.paste(im, (0, 0), im): im goes on top, through its own alpha.
PasteMasked(canvas, im) == [canvas EXCEPT !.px = canvas.px \o im.px]

\* ------------------------------------------------------------- compositing
\* The file name of an output image: output_dir/images/<edition>.<ext>
OutputPath(ed, ext) == [dir |-> "images", stem |-> ed, ext |-> ext]

\* Skipped without the test of the file's type: animated layers are pasted too.
Skipped_BackgroundOnly(layer_name, layer_info) == layer_name = "Background"

\* A layer the "paste other static layers" loops skip.
Skipped(layer_name, layer_info) == layer_name = "Background" \/ layer_info.type = "gif"

RECURSIVE PasteStaticLayers(_, _, _)
\* The loop of _generate_png_character over selected_layers.items(), from entry i on.
PasteStaticLayers(combined_image, layers, i) ==
    IF i > Len(layers) THEN combined_image
    ELSE IF Skipped(layers[i].k, layers[i].v)
         THEN PasteStaticLayers(combined_image, layers, i + 1)
         ELSE PasteStaticLayers(
                  PasteMasked(combined_image,
                              Convert(ImageOpen(layers[i].v.path, 1)[1], "RGBA")),
                  layers, i + 1)

\* The result of _generate_png_character when every file it opens can be read:
\* the output path and image, or the exception it raises.
_generate_png_character(layers, ed) ==
    LET background == DictGet(layers, "Background") IN
    IF background = None
    THEN [exc |-> "TypeError"]
    ELSE LET background_image == Convert(ImageOpen(background.path, 1)[1], "RGBA")
             combined_image   == Paste(ImageNew("RGBA"), background_image)
         IN  [ exc   |-> "none",
               path  |-> OutputPath(ed, "png"),
               image |-> << PasteStaticLayers(combined_image, layers, 1) >> ]

RECURSIVE StaticLayers(_, _, _)
\* The dict static_layers of _generate_gif_character, built from entry i on.
StaticLayers(static_layers, layers, i) ==
    IF i > Len(layers) THEN static_layers
    ELSE IF Skipped(layers[i].k, layers[i].v)
         THEN StaticLayers(static_layers, layers, i + 1)
         ELSE StaticLayers(
                  DictSet(static_layers, layers[i].k,
                          Convert(ImageOpen(layers[i].v.path, 1)[1], "RGBA")),
                  layers, i + 1)

RECURSIVE PasteValues(_, _, _)
\* for layer_image in static_layers.values(): combined_frame.paste(...)
PasteValues(combined_frame, static_layers, i) ==
    IF i > Len(static_layers) THEN combined_frame
    ELSE PasteValues(PasteMasked(combined_frame, static_layers[i].v), static_layers, i + 1)

\* The body of the loop over ImageSequence.Iterator(background_gif).
CombinedFrame(frame, static_layers) ==
    PasteValues(Paste(ImageNew("RGBA"), Convert(frame, "RGBA")), static_layers, 1)

\* GifFrames pasting the static layers on the first frame only.
GifFrames_FirstOnly(background_gif, static_layers) ==
    [i \in DOMAIN background_gif |->
        CombinedFrame(background_gif[i], IF i = 1 THEN static_layers ELSE <<>>)]

\* The frames list of _generate_gif_character for a background of n frames.
GifFrames(background_gif, static_layers) ==
    [i \in DOMAIN background_gif |-> CombinedFrame(background_gif[i], static_layers)]

\* The result of _generate_gif_character when every file it opens can be read.
_generate_gif_character(layers, ed, n) ==
    LET background     == DictGet(layers, "Background")
        background_gif == ImageOpen(background.path, n)
        static_layers  == StaticLayers(<<>>, layers, 1)
    IN  [ exc   |-> "none",
          path  |-> OutputPath(ed, "gif"),
          image |-> GifFrames(background_gif, static_layers) ]

\* UseGifPath comparing the type with the extension as splitext returns it.
UseGifPath_DotGif(layers) ==
    LET background == DictGet(layers, "Background") IN
    background # None /\ background.type = ".gif"

\* Lines 101-107: the path taken, by the Background selection.
UseGifPath(layers) ==
    LET background == DictGet(layers, "Background") IN
    background # None /\ background.type = "gif"

\* The exceptions a PIL read of an unreadable file raises.
ReadErrors == {"OSError", "ValueError"}

\* except ValueError
IsValueError(e) == e \in {"Exhausted", "ValueError"}

\* ------------------------------------------------------------- metadata
\* image_path.split('.')[-1]
LastDotPart(path) == path.ext

\* os.path.splitext(filename)[0]
SplitextStem(filename) == filename.stem

RECURSIVE Attributes_NoFilter(_, _, _)
\* Attributes without the "if layer in selected_layers" filter.
Attributes_NoFilter(order, layers, i) ==
    IF i > Len(order) THEN <<>>
    ELSE << [ trait_type |-> order[i],
              value      |-> IF DictHas(layers, order[i])
                             THEN SplitextStem(DictGet(layers, order[i]).filename)
                             ELSE "None" ] >>
         \o Attributes_NoFilter(order, layers, i + 1)

RECURSIVE Attributes(_, _, _)
\* The "attributes" list comprehension, from position i of order on.
Attributes(order, layers, i) ==
    IF i > Len(order) THEN <<>>
    ELSE IF DictHas(layers, order[i])
         THEN << [ trait_type |-> order[i],
                   value      |-> SplitextStem(DictGet(layers, order[i]).filename) ] >>
              \o Attributes(order, layers, i + 1)
         ELSE Attributes(order, layers, i + 1)

\* The metadata dict (name, description, compiler and date carry no state).
Metadata(order, layers, ed, d, path) ==
    [ image      |-> [uri |-> ed, ext |-> LastDotPart(path)],
      dna        |-> d,
      edition    |-> ed,
      attributes |-> Attributes(order, layers, 1) ]

\* ------------------------------------------------------------- Init
Layers == Range(LayerNames)

AnimatedBackground(cat) ==
    \E f \in LayerFilesOf(cat["Background"]) : Lower(f.ext) = "gif"

RECURSIVE Combinations(_, _, _)
\* The number of selections the layers order[i..] can yield from cat.
Combinations(cat, order, i) ==
    IF i > Len(order) THEN 1
    ELSE (IF LayerFilesOf(cat[order[i]]) = {} THEN 1
          ELSE Cardinality(LayerFilesOf(cat[order[i]])))
         * Combinations(cat, order, i + 1)

\* The state after CharacterGenerator.__init__ and the reads of the config at
\* the top of generate_collection. Directories of layers that are not
\* configured are never listed, so they are left absent; the frame count is
\* drawn only when an animated Background exists, one frame or MaxFrames; the
\* catalog offers at most MaxCombinations selections, and selections times
\* editions requested is at most MaxWork.
Init ==
    /\ layers_order \in OrderChoices
    /\ catalog \in [Layers -> UNION {DirChoices(l) : l \in Layers}]
    /\ \A l \in Layers :
          IF l \in Range(layers_order) THEN catalog[l] \in DirChoices(l)
                                       ELSE catalog[l] = Absent
    /\ Combinations(catalog, layers_order, 1) <= MaxCombinations
    /\ nframes \in (IF AnimatedBackground(catalog) THEN {1, MaxFrames} ELSE {1})
    /\ total_characters \in 0..MaxTotal
    /\ max_attempts \in 0..MaxAttempts
    /\ Combinations(catalog, layers_order, 1) * total_characters <= MaxWork
    /\ generated_dnas = {}
    /\ generated_characters = <<>>
    /\ images = [e \in 1..total_characters |-> <<>>]
    /\ ran = [e \in 1..total_characters |-> "none"]
    /\ edition = 0
    /\ attempt = 0
    /\ layer_i = 1
    /\ selected_layers = <<>>
    /\ dna = -1
    /\ image_path = None
    /\ metadata = None
    /\ exc = "none"
    /\ pc = "driver"
    /\ tries = 0
    /\ selections = 0
    /\ built = <<>>
    /\ h_layers = <<>>
    /\ h_dna = <<>>
    /\ g_file = <<>>
    /\ g_image = <<>>
    /\ g_frames = 0
    /\ g_saved = <<>>

\* ------------------------------------------------------------- generate_collection
\* NextEdition with a registry per edition: it starts every edition empty.
NextEdition_FreshRegistry ==
    /\ pc = "driver"
    /\ edition < total_characters
    /\ edition' = edition + 1
    /\ attempt' = 0
    /\ tries' = 0
    /\ selections' = selections
    /\ generated_dnas' = {}
    /\ pc' = "attempt"
    /\ UNCHANGED << config, generated_characters, images, layer_i, selected_layers, dna,
                    image_path, metadata, exc, built, ran, harness >>

\* for edition in range(1, total_characters + 1): call generate_character
NextEdition ==
    /\ pc = "driver"
    /\ edition < total_characters
    /\ edition' = edition + 1
    /\ attempt' = 0
    /\ tries' = 0
    /\ selections' = selections
    /\ pc' = "attempt"
    /\ UNCHANGED << config, generated_dnas, generated_characters, images, layer_i, selected_layers,
                    dna, image_path, metadata, exc, built, ran, harness >>

\* The loop is over: return generated_characters
ReturnCollection ==
    /\ pc = "driver"
    /\ edition >= total_characters
    /\ pc' = "returned"
    /\ UNCHANGED << config, generated_dnas, generated_characters, images, edition, attempt,
                    layer_i, selected_layers, dna, image_path, metadata, exc, tries, selections,
                    built, ran, harness >>

\* generated_characters.append(character_metadata); the callee's frame is gone
AppendCharacter ==
    /\ pc = "append"
    /\ generated_characters' = Append(generated_characters, metadata)
    /\ built' = Append(built, selected_layers)
    /\ selected_layers' = <<>>
    /\ layer_i' = 1
    /\ dna' = -1
    /\ image_path' = None
    /\ metadata' = None
    /\ pc' = "driver"
    /\ UNCHANGED << config, generated_dnas, images, edition, attempt, exc, tries, selections, ran,
                    harness >>

\* CatchValueError with continue in place of break: the loop goes on.
CatchValueError_Continue ==
    /\ pc = "raise"
    /\ IsValueError(exc)
    /\ pc' = "driver"
    /\ UNCHANGED << config, generated_dnas, generated_characters, images, edition, attempt,
                    layer_i, selected_layers, dna, image_path, metadata, exc, tries, selections,
                    built, ran, harness >>

\* except ValueError: print, break, return generated_characters
CatchValueError ==
    /\ pc = "raise"
    /\ IsValueError(exc)
    /\ pc' = "returned"
    /\ UNCHANGED << config, generated_dnas, generated_characters, images, edition, attempt,
                    layer_i, selected_layers, dna, image_path, metadata, exc, tries, selections,
                    built, ran, harness >>

\* Any other exception leaves generate_collection and main.
Propagate ==
    /\ pc = "raise"
    /\ ~IsValueError(exc)
    /\ pc' = "crashed"
    /\ UNCHANGED << config, generated_dnas, generated_characters, images, edition, attempt,
                    layer_i, selected_layers, dna, image_path, metadata, exc, tries, selections,
                    built, ran, harness >>

\* ------------------------------------------------------------- generate_character
\* HasAttempt with the cap off by one: range(max_attempts + 1).
HasAttempt_OneMore(a, cap) == a <= cap

\* for attempt in range(max_attempts): is there another iteration at index a?
HasAttempt(a, cap) == a < cap

\* IsFresh with the membership test lost: every dna passes.
IsFresh_Always(d, dnas) == TRUE

\* dna not in self.generated_dnas
IsFresh(d, dnas) == d \notin dnas

\* AddDna with the insertion lost.
AddDna_Dropped(dnas, d) == dnas

\* self.generated_dnas.add(dna)
AddDna(dnas, d) == dnas \cup {d}

\* An iteration of the attempt loop begins: selected_layers = {}
BeginAttempt ==
    /\ pc = "attempt"
    /\ HasAttempt(attempt, max_attempts)
    /\ selected_layers' = <<>>
    /\ layer_i' = 1
    /\ tries' = tries + 1
    /\ selections' = selections + 1
    /\ pc' = "select"
    /\ UNCHANGED << config, generated_dnas, generated_characters, images, edition, attempt, dna,
                    image_path, metadata, exc, built, ran, harness >>

\* The attempt loop is over: raise ValueError("Could not generate ...")
RaiseExhausted ==
    /\ pc = "attempt"
    /\ ~HasAttempt(attempt, max_attempts)
    /\ exc' = "Exhausted"
    /\ pc' = "raise"
    /\ UNCHANGED << config, generated_dnas, generated_characters, images, edition, attempt,
                    layer_i, selected_layers, dna, image_path, metadata, tries, selections, built,
                    ran, harness >>

\* One iteration of "for layer in layers_order"
SelectLayer ==
    /\ pc = "select"
    /\ layer_i <= Len(layers_order)
    /\ \E layer_file \in _select_layer_file(catalog, layers_order[layer_i]) :
          selected_layers' =
              IF layer_file # None
              THEN DictSet(selected_layers, layers_order[layer_i], layer_file)
              ELSE selected_layers
    /\ layer_i' = layer_i + 1
    /\ UNCHANGED << config, generated_dnas, generated_characters, images, edition, attempt, dna,
                    image_path, metadata, exc, pc, tries, selections, built, ran, harness >>

\* dna = ...; the dna is not in the registry: add it and go on to compositing
AcceptDna ==
    /\ pc = "select"
    /\ layer_i > Len(layers_order)
    /\ IsFresh(_generate_dna_hash(selected_layers), generated_dnas)
    /\ dna' = _generate_dna_hash(selected_layers)
    /\ generated_dnas' = AddDna(generated_dnas, dna')
    /\ pc' = "composite"
    /\ UNCHANGED << config, generated_characters, images, edition, attempt, layer_i,
                    selected_layers, image_path, metadata, exc, tries, selections, built, ran,
                    harness >>

\* RejectDna as a retry that does not count: the attempt index stays.
RejectDna_SameAttempt ==
    /\ pc = "select"
    /\ layer_i > Len(layers_order)
    /\ ~IsFresh(_generate_dna_hash(selected_layers), generated_dnas)
    /\ dna' = _generate_dna_hash(selected_layers)
    /\ pc' = "attempt"
    /\ UNCHANGED << config, generated_dnas, generated_characters, images, edition, attempt,
                    layer_i, selected_layers, image_path, metadata, exc, tries, selections,
                    built, ran, harness >>

\* dna = ...; the dna is in the registry: on to the next iteration
RejectDna ==
    /\ pc = "select"
    /\ layer_i > Len(layers_order)
    /\ ~IsFresh(_generate_dna_hash(selected_layers), generated_dnas)
    /\ dna' = _generate_dna_hash(selected_layers)
    /\ attempt' = attempt + 1
    /\ pc' = "attempt"
    /\ UNCHANGED << config, generated_dnas, generated_characters, images, edition, layer_i,
                    selected_layers, image_path, metadata, exc, tries, selections, built, ran,
                    harness >>

\* Background is animated: _generate_gif_character returns
CompositeGif ==
    /\ pc = "composite"
    /\ UseGifPath(selected_layers)
    /\ LET r == _generate_gif_character(selected_layers, edition, nframes) IN
          /\ images' = [images EXCEPT ![edition] = r.image]
          /\ image_path' = r.path
    /\ ran' = [ran EXCEPT ![edition] = "gif"]
    /\ pc' = "metadata"
    /\ UNCHANGED << config, generated_dnas, generated_characters, edition, attempt, layer_i,
                    selected_layers, dna, metadata, exc, tries, selections, built, harness >>

\* Otherwise: _generate_png_character returns
CompositePng ==
    /\ pc = "composite"
    /\ ~UseGifPath(selected_layers)
    /\ LET r == _generate_png_character(selected_layers, edition) IN
          /\ r.exc = "none"
          /\ images' = [images EXCEPT ![edition] = r.image]
          /\ image_path' = r.path
    /\ ran' = [ran EXCEPT ![edition] = "png"]
    /\ pc' = "metadata"
    /\ UNCHANGED << config, generated_dnas, generated_characters, edition, attempt, layer_i,
                    selected_layers, dna, metadata, exc, tries, selections, built, harness >>

\* Otherwise: _generate_png_character raises before it opens any file
CompositePngRaises ==
    /\ pc = "composite"
    /\ ~UseGifPath(selected_layers)
    /\ LET r == _generate_png_character(selected_layers, edition) IN
          /\ r.exc # "none"
          /\ exc' = r.exc
    /\ pc' = "raise"
    /\ UNCHANGED << config, generated_dnas, generated_characters, images, edition, attempt,
                    layer_i, selected_layers, dna, image_path, metadata, tries, selections, built,
                    ran, harness >>

\* CompositeReadError caught inside the attempt loop: the edition is retried.
CompositeReadError_Retry ==
    /\ pc = "composite"
    /\ DictGet(selected_layers, "Background") # None
    /\ \E e \in ReadErrors : exc' = e
    /\ attempt' = attempt + 1
    /\ pc' = "attempt"
    /\ UNCHANGED << config, generated_dnas, generated_characters, images, edition, layer_i,
                    selected_layers, dna, image_path, metadata, tries, selections, built, ran,
                    harness >>

\* Either path: a file it opens cannot be read, PIL raises
CompositeReadError ==
    /\ pc = "composite"
    /\ DictGet(selected_layers, "Background") # None
    /\ \E e \in ReadErrors : exc' = e
    /\ pc' = "raise"
    /\ UNCHANGED << config, generated_dnas, generated_characters, images, edition, attempt,
                    layer_i, selected_layers, dna, image_path, metadata, tries, selections, built,
                    ran, harness >>

\* AssembleMetadata with the return outside the attempt loop: the loop goes on.
AssembleMetadata_NoReturn ==
    /\ pc = "metadata"
    /\ metadata' = Metadata(layers_order, selected_layers, edition, dna, image_path)
    /\ attempt' = attempt + 1
    /\ pc' = "attempt"
    /\ UNCHANGED << config, generated_dnas, generated_characters, images, edition, layer_i,
                    selected_layers, dna, image_path, exc, tries, selections, built, ran, harness >>

\* metadata = {...}; json.dump; return metadata
AssembleMetadata ==
    /\ pc = "metadata"
    /\ metadata' = Metadata(layers_order, selected_layers, edition, dna, image_path)
    /\ pc' = "append"
    /\ UNCHANGED << config, generated_dnas, generated_characters, images, edition, attempt,
                    layer_i, selected_layers, dna, image_path, exc, tries, selections, built, ran,
                    harness >>

Next ==
    \/ NextEdition
    \/ ReturnCollection
    \/ AppendCharacter
    \/ CatchValueError
    \/ Propagate
    \/ BeginAttempt
    \/ RaiseExhausted
    \/ SelectLayer
    \/ AcceptDna
    \/ RejectDna
    \/ CompositeGif
    \/ CompositePng
    \/ CompositePngRaises
    \/ CompositeReadError
    \/ AssembleMetadata

Spec == Init /\ [][Next]_vars

\* The interpreter runs the one thread of the program as long as it has a
\* step to take.
SpecFair == Spec /\ WF_vars(Next)

\* ------------------------------------------------------------- _generate_dna_hash alone
\* The eligible files the model knows for a layer.
EligibleFiles(layer) == UNION {LayerFilesOf(d) : d \in DirChoices(layer)}

\* Sequences of distinct layer names.
KeyOrders == {o \in UNION {[1..n -> Layers] : n \in 0..Len(LayerNames)} :
                 \A i, j \in DOMAIN o : i # j => o[i] # o[j]}

\* One eligible file for every layer.
Picks == {pick \in [Layers -> UNION {EligibleFiles(l) : l \in Layers}] :
             \A l \in Layers : pick[l] \in EligibleFiles(l)}

\* The dict that holds pick's files for the keys of o, stored in o's order.
DictOf(o, pick) == [i \in DOMAIN o |-> [k |-> o[i], v |-> LayerFile(o[i], pick[o[i]])]]

Perms(n) == {f \in [1..n -> 1..n] : \A i, j \in 1..n : i # j => f[i] # f[j]}

\* The entries of d stored in the order f.
Permute(d, f) == [i \in DOMAIN d |-> d[f[i]]]

\* The layer name -> file mapping a dict holds.
Mapping(d) == {<<d[i].k, d[i].v.path>> : i \in DOMAIN d}

\* A dict of selections and a permutation of its storage order.
InitDna ==
    /\ h_layers \in UNION { UNION { { << DictOf(o, pick), Permute(DictOf(o, pick), f) >> :
                                        f \in Perms(Len(o)) }
                                    : pick \in Picks }
                            : o \in KeyOrders }
    /\ h_dna = <<>>
    /\ pc = "hash"
    /\ layers_order = <<>>
    /\ catalog = [l \in Layers |-> Absent]
    /\ nframes = 1
    /\ total_characters = 0
    /\ max_attempts = 0
    /\ generated_dnas = {}
    /\ generated_characters = <<>>
    /\ images = <<>>
    /\ ran = <<>>
    /\ edition = 0
    /\ attempt = 0
    /\ layer_i = 1
    /\ selected_layers = <<>>
    /\ dna = -1
    /\ image_path = None
    /\ metadata = None
    /\ exc = "none"
    /\ tries = 0
    /\ selections = 0
    /\ built = <<>>
    /\ g_file = <<>>
    /\ g_image = <<>>
    /\ g_frames = 0
    /\ g_saved = <<>>

\* _generate_dna_hash is called on each of the two dicts.
HashBoth ==
    /\ pc = "hash"
    /\ h_dna' = << _generate_dna_hash(h_layers[1]), _generate_dna_hash(h_layers[2]) >>
    /\ pc' = "hashed"
    /\ UNCHANGED << config, generated_dnas, generated_characters, images, edition, attempt,
                    layer_i, selected_layers, dna, image_path, metadata, exc, tries, selections,
                    built, ran, h_layers, gif >>

NextDna == HashBoth

SpecDna == InitDna /\ [][NextDna]_vars

\* ------------------------------------------------------------- timing of the animated output
\* Frame delays a GIF file can carry, in milliseconds.
GifDurations == {40, 100, 250}

\* Loop counts a GIF file can carry: 0 is "for ever".
GifLoops == {0, 3}

\* An optional value: <<>> when the file does not carry it, <<x>> when it does.
Optional(S) == {<<>>} \cup {<<x>> : x \in S}

\* The animated Background files: 1..MaxFrames frames, each with or without a
\* delay of its own, and the file with or without a loop count.
GifFiles ==
    { [durations |-> d, loop |-> l] :
        d \in UNION {[1..n -> Optional(GifDurations)] : n \in 1..MaxFrames},
        l \in Optional(GifLoops) }

\* The default of info.get('duration', 100).
DefaultDuration == 100

\* The loop argument of save.
LoopArgument == 0

\* Image.open on a GIF: the image stands on its first frame and info holds
\* that frame's delay and the file's loop count.
GifOpen(file) ==
    [frame |-> 1, info |-> [duration |-> file.durations[1], loop |-> file.loop]]

\* seek(i) as ImageSequence.Iterator calls it: info['duration'] becomes the
\* delay of frame i; for a frame without one, the entry of the frame before is
\* kept by some releases of the library and removed by others.
GifSeek(file, image, i) ==
    IF i = image.frame THEN {image}
    ELSE { [frame |-> i, info |-> [image.info EXCEPT !.duration = d]] :
             d \in IF file.durations[i] # <<>> THEN {file.durations[i]}
                   ELSE {image.info.duration, <<>>} }

\* info.get(key, default)
InfoGet(info, default) == IF info = <<>> THEN default ELSE info[1]

\* frames[0].save(save_all=True, append_images=frames[1:], duration=d, loop=l):
\* the combined frames are new images without info of their own, so the encoder
\* writes the one delay d on every frame and the loop count l.
GifSave(n, d, l) == [durations |-> [i \in 1..n |-> <<d>>], loop |-> <<l>>]

\* One animated Background file, not yet opened.
InitGif ==
    /\ g_file \in GifFiles
    /\ g_image = <<>>
    /\ g_frames = 0
    /\ g_saved = <<>>
    /\ pc = "gif_open"
    /\ h_layers = <<>>
    /\ h_dna = <<>>
    /\ layers_order = <<>>
    /\ catalog = [l \in Layers |-> Absent]
    /\ nframes = 1
    /\ total_characters = 0
    /\ max_attempts = 0
    /\ generated_dnas = {}
    /\ generated_characters = <<>>
    /\ images = <<>>
    /\ ran = <<>>
    /\ edition = 0
    /\ attempt = 0
    /\ layer_i = 1
    /\ selected_layers = <<>>
    /\ dna = -1
    /\ image_path = None
    /\ metadata = None
    /\ exc = "none"
    /\ tries = 0
    /\ selections = 0
    /\ built = <<>>

\* background_gif = Image.open(background['path'])
GifOpenBackground ==
    /\ pc = "gif_open"
    /\ g_image' = GifOpen(g_file)
    /\ pc' = "gif_frames"
    /\ UNCHANGED << config, generated_dnas, generated_characters, images, edition, attempt,
                    layer_i, selected_layers, dna, image_path, metadata, exc, tries, selections,
                    built, ran, h_layers, h_dna, g_file, g_frames, g_saved >>

\* for frame in ImageSequence.Iterator(background_gif): ... frames.append(combined_frame)
GifNextFrame ==
    /\ pc = "gif_frames"
    /\ g_frames < Len(g_file.durations)
    /\ g_image' \in GifSeek(g_file, g_image, g_frames + 1)
    /\ g_frames' = g_frames + 1
    /\ UNCHANGED << config, generated_dnas, generated_characters, images, edition, attempt,
                    layer_i, selected_layers, dna, image_path, metadata, exc, pc, tries,
                    selections, built, ran, h_layers, h_dna, g_file, g_saved >>

\* The iterator's seek past the last frame fails, the image stays on the last
\* frame and the loop ends.
GifEndFrames ==
    /\ pc = "gif_frames"
    /\ g_frames = Len(g_file.durations)
    /\ pc' = "gif_save"
    /\ UNCHANGED << config, generated_dnas, generated_characters, images, edition, attempt,
                    layer_i, selected_layers, dna, image_path, metadata, exc, tries, selections,
                    built, ran, h_layers, h_dna, gif >>

\* frames[0].save(..., duration=background_gif.info.get('duration', 100), loop=0)
GifSaveFrames ==
    /\ pc = "gif_save"
    /\ g_saved' = GifSave(g_frames, InfoGet(g_image.info.duration, DefaultDuration), LoopArgument)
    /\ pc' = "gif_saved"
    /\ UNCHANGED << config, generated_dnas, generated_characters, images, edition, attempt,
                    layer_i, selected_layers, dna, image_path, metadata, exc, tries, selections,
                    built, ran, h_layers, h_dna, g_file, g_image, g_frames >>

NextGif ==
    \/ GifOpenBackground
    \/ GifNextFrame
    \/ GifEndFrames
    \/ GifSaveFrames

SpecGif == InitGif /\ [][NextGif]_vars

\* ------------------------------------------------------------- claims
Records == DOMAIN generated_characters

RecordDnas == {generated_characters[i].dna : i \in Records}

Finished == pc \in {"returned", "crashed"}

\* C1: no two metadata records of the list generate_collection builds and
\* returns have the same DNA, and no two of them were built from the same
\* layer name -> selected file mapping.
C1_UniqueEditions ==
    /\ Len(built) = Len(generated_characters)
    /\ \A i, j \in Records :
          i # j => /\ generated_characters[i].dna # generated_characters[j].dna
                   /\ Mapping(built[i]) # Mapping(built[j])

\* A run returned three records and the last of them needed a second attempt,
\* its first having drawn a combination already produced.
C1_Witness ==
    /\ pc = "returned"
    /\ Len(generated_characters) = 3
    /\ tries = 2

\* C2 as stated: between edition attempts and at the end of any run, a failed
\* one included, the registry holds exactly as many DNA values as there are
\* records, and these are the records' DNA values. Runs that end in the
\* TypeError of a missing Background (C7) are left aside, so that what refutes
\* the statement is a run that selected a Background.
C2_Original ==
    ((pc = "driver" \/ Finished) /\ exc # "TypeError") =>
        /\ Cardinality(generated_dnas) = Len(generated_characters)
        /\ generated_dnas = RecordDnas

\* C2 amended: the above holds between edition attempts and at the end of a
\* run that completed or ended in exhaustion; at the end of a run that a
\* compositing failure ended the registry holds, besides the records' DNA
\* values, the DNA of the attempt that failed.
C2_RegistryMatchesRecords ==
    (pc = "driver" \/ Finished) =>
        IF exc \in {"none", "Exhausted"}
        THEN /\ Cardinality(generated_dnas) = Len(generated_characters)
             /\ generated_dnas = RecordDnas
        ELSE /\ Cardinality(generated_dnas) = Len(generated_characters) + 1
             /\ generated_dnas = RecordDnas \cup {dna}
             /\ dna \notin RecordDnas

\* A run produced two editions and then ended in a read failure while
\* compositing the third.
C2_Witness ==
    /\ pc = "crashed"
    /\ exc = "OSError"
    /\ Len(generated_characters) = 2
    /\ edition = 3

\* Every configured layer has exactly one eligible file.
OneCombination ==
    /\ layers_order # <<>>
    /\ \A l \in Range(layers_order) : Cardinality(LayerFilesOf(catalog[l])) = 1

\* C3 as stated, for runs in which every file opened can be read: with one
\* combination, max_attempts >= 1 and 2 editions requested, the run ends with
\* edition 1 produced and edition 2 failed by exhaustion after exactly
\* max_attempts selection attempts.
C3_Exhaustion ==
    ( /\ OneCombination
      /\ max_attempts >= 1
      /\ total_characters = 2
      /\ Finished
      /\ exc \notin ReadErrors ) =>
        /\ Len(generated_characters) = 1
        /\ generated_characters[1].edition = 1
        /\ exc = "Exhausted"
        /\ edition = 2
        /\ tries = max_attempts

\* C3 where a Background is selected: the statement holds, so what refutes
\* C3_Exhaustion is the static path's failure without a Background (C7).
C3_WithBackground ==
    ( /\ OneCombination
      /\ LayerFilesOf(catalog["Background"]) # {}
      /\ max_attempts >= 1
      /\ total_characters = 2
      /\ Finished
      /\ exc \notin ReadErrors ) =>
        /\ Len(generated_characters) = 1
        /\ generated_characters[1].edition = 1
        /\ exc = "Exhausted"
        /\ edition = 2
        /\ tries = max_attempts

\* C4: once an edition has exhausted its cap the run only raises and returns:
\* no later edition is entered or composited, and the list holds exactly the
\* records of editions 1..e-1 in increasing order.
C4_FailFast ==
    exc = "Exhausted" =>
        /\ pc \in {"raise", "returned"}
        /\ Len(generated_characters) = edition - 1
        /\ \A i \in Records : generated_characters[i].edition = i
        /\ \A e \in edition..total_characters : ran[e] = "none" /\ images[e] = <<>>

\* Edition 2 of 3 exhausted its cap and the run returned edition 1 alone.
C4_Witness ==
    /\ pc = "returned"
    /\ exc = "Exhausted"
    /\ edition = 2
    /\ total_characters = 3
    /\ Len(generated_characters) = 1

\* C5 as stated: _generate_dna_hash returns the same DNA for a dict and for any
\* permutation of the order in which its entries are stored.
C5_OrderIndependent ==
    pc = "hashed" => h_dna[1] = h_dna[2]

\* The configured layers that have an eligible file, in configured order.
PresentLayers ==
    SelectSeq(layers_order, LAMBDA l : \E f \in catalog[l].files : Lower(f.ext) \in {"png", "gif"})

\* C6: the attribute list of every record has one entry per configured layer
\* with an eligible file, in configured order, trait_type the layer name and
\* value the selected file's name without extension; a configured layer whose
\* directory is missing or has no eligible file has no entry.
C6_Attributes ==
    LET present == PresentLayers IN
    \A r \in Records :
        LET attrs == generated_characters[r].attributes
            sel   == Mapping(built[r])
        IN  /\ Len(attrs) = Len(present)
            /\ \A j \in DOMAIN attrs :
                  /\ attrs[j].trait_type = present[j]
                  /\ \E f \in catalog[present[j]].files :
                        /\ <<present[j], <<present[j], f>>>> \in sel
                        /\ attrs[j].value = f.stem
            /\ \A l \in Range(layers_order) :
                  (~catalog[l].exists \/ LayerFilesOf(catalog[l]) = {})
                      => \A j \in DOMAIN attrs : attrs[j].trait_type # l

\* Order [Background, Body, Eyes] with nothing eligible for Eyes: a record
\* whose attributes are Background then Body.
C6_Witness ==
    /\ layers_order = <<"Background", "Body", "Eyes">>
    /\ LayerFilesOf(catalog["Eyes"]) = {}
    /\ Len(generated_characters) >= 1
    /\ Len(generated_characters[1].attributes) = 2
    /\ generated_characters[1].attributes[1].trait_type = "Background"
    /\ generated_characters[1].attributes[2].trait_type = "Body"

\* C7 as stated: when Background is configured and yields no selection, an
\* attempt with a fresh DNA runs the static path and completes the edition
\* with one flattened frame, going on to the metadata record.
C7_NoBackgroundCompletes ==
    [][ ( /\ pc = "composite"
          /\ "Background" \in Range(layers_order)
          /\ ~DictHas(selected_layers, "Background") )
            => /\ pc' = "metadata"
               /\ ran'[edition] = "png"
               /\ Len(images'[edition]) = 1 ]_vars

\* The catalog and request of the end-to-end case: Background with one static
\* and one animated file, Body with two files, 3 editions.
C8_Setup ==
    /\ Range(layers_order) = {"Background", "Body"}
    /\ Cardinality(LayerFilesOf(catalog["Background"])) = 2
    /\ Cardinality({f \in LayerFilesOf(catalog["Background"]) : Lower(f.ext) = "gif"}) = 1
    /\ Cardinality(LayerFilesOf(catalog["Body"])) = 2
    /\ total_characters = 3

\* The records whose output image is of the animated type.
AnimatedRecords == {r \in Records : generated_characters[r].image.ext = "gif"}

DistinctDnas ==
    \A i, j \in Records :
        i # j => generated_characters[i].dna # generated_characters[j].dna

\* C8 as stated, for the runs that end without any failure: 3 records with
\* pairwise distinct DNA, at most one of them animated.
C8_Original ==
    (C8_Setup /\ pc = "returned" /\ exc = "none") =>
        /\ Len(generated_characters) = 3
        /\ DistinctDnas
        /\ Cardinality(AnimatedRecords) <= 1

\* C8 amended: the records of a run have pairwise distinct DNA; a run that
\* ends without failure yields 3 records of which one or two are animated; a
\* run that exhaustion or a compositing failure ends yields fewer than 3.
C8_EndToEnd ==
    (C8_Setup /\ Finished) =>
        /\ DistinctDnas
        /\ Cardinality(AnimatedRecords) <= 2
        /\ exc = "none" => /\ Len(generated_characters) = 3
                           /\ Cardinality(AnimatedRecords) \in {1, 2}
        /\ exc # "none" => Len(generated_characters) < 3

\* A run of the end-to-end case returned 3 records, two of them animated.
C8_Witness ==
    /\ C8_Setup
    /\ pc = "returned"
    /\ Len(generated_characters) = 3
    /\ Cardinality(AnimatedRecords) = 2

\* C9: for every record, the animated path ran exactly when a Background was
\* selected whose extension is gif in any letter case, the static path ran
\* otherwise, and the image reference ends in gif exactly when the animated
\* path ran and in png otherwise.
C9_PathByBackground ==
    \A r \in Records :
        LET background == DictGet(built[r], "Background")
            animated   == /\ background # None
                          /\ background.filename.ext \in {"gif", "GIF", "Gif", "gIF"}
        IN  /\ ran[r] = "gif" <=> animated
            /\ ran[r] = "png" <=> ~animated
            /\ generated_characters[r].image.ext = "gif" <=> ran[r] = "gif"
            /\ generated_characters[r].image.ext = "png" <=> ran[r] # "gif"

\* A record whose Background file has the extension GIF and whose image
\* reference ends in gif, and a record with a static Background.
C9_Witness ==
    /\ \E r \in Records :
          /\ DictGet(built[r], "Background").filename.ext = "GIF"
          /\ ran[r] = "gif"
          /\ generated_characters[r].image.ext = "gif"
    /\ \E r \in Records :
          /\ DictGet(built[r], "Background").filename.ext = "png"
          /\ ran[r] = "png"

\* The selection edition e was composited from.
SelectionOf(e) == IF e <= Len(built) THEN built[e] ELSE selected_layers

\* The sources of the selected static layers other than Background, in
\* configured order.
Overlays(sel) ==
    LET static == SelectSeq(layers_order,
                            LAMBDA l : /\ l # "Background"
                                       /\ DictHas(sel, l)
                                       /\ DictGet(sel, l).type # "gif")
    IN  [j \in DOMAIN static |-> <<DictGet(sel, static[j]).path, 1>>]

\* C10: the animated path's output has as many frames as the Background, in
\* the Background's order, each the Background frame with the selected static
\* layers other than Background on top in configured order.
C10_AnimatedFrames ==
    \A e \in DOMAIN ran :
        ran[e] = "gif" =>
            LET sel == SelectionOf(e) IN
            /\ Len(images[e]) = nframes
            /\ \A i \in DOMAIN images[e] :
                  images[e][i].px = << <<DictGet(sel, "Background").path, i>> >> \o Overlays(sel)

\* An animated edition of several frames with two static layers on top.
C10_Witness ==
    \E e \in DOMAIN ran :
        /\ ran[e] = "gif"
        /\ Len(images[e]) >= 2
        /\ Len(Overlays(SelectionOf(e))) = 2
        /\ layers_order[1] # "Background"

\* C11: in a successful attempt the DNA is put in the registry first, the
\* image is composited next, the metadata is assembled after that and then
\* handed back; the attempt that finds a fresh DNA is the last selection
\* attempt of its edition.
C11_StepOrder ==
    [][ /\ (pc = "select" /\ pc' = "composite") =>
              /\ dna' \notin generated_dnas
              /\ dna' \in generated_dnas'
              /\ images'[edition] = <<>>
              /\ metadata' = None
        /\ pc = "composite" =>
              /\ pc' \in {"metadata", "raise"}
              /\ dna \in generated_dnas
              /\ images[edition] = <<>>
              /\ metadata' = None
              /\ pc' = "metadata" => images'[edition] # <<>>
        /\ pc = "metadata" =>
              /\ pc' = "append"
              /\ images' = images
              /\ metadata = None
              /\ metadata' # None
              /\ metadata'.dna = dna
              /\ generated_characters' = generated_characters
        /\ pc = "append" =>
              /\ pc' = "driver"
              /\ generated_characters' = Append(generated_characters, metadata)
        /\ pc \in {"composite", "metadata", "append"} =>
              /\ tries' = tries
              /\ edition' = edition
              /\ generated_dnas' = generated_dnas
        /\ (pc = "driver" /\ pc' = "attempt") => edition' = edition + 1 ]_vars

\* Edition 2 is handed back by its second attempt, the first having been
\* rejected.
C11_Witness ==
    /\ pc = "append"
    /\ metadata # None
    /\ tries = 2
    /\ attempt = 1
    /\ edition = 2

\* The selection is complete and is one an earlier edition was built from.
Collides ==
    /\ pc = "select"
    /\ layer_i > Len(layers_order)
    /\ \E r \in DOMAIN built : Mapping(built[r]) = Mapping(selected_layers)

\* C12: an attempt whose DNA is already in the registry changes neither the
\* registry nor the images nor the records and assembles no metadata; after
\* it the edition either begins another selection attempt or, when the
\* attempts made have reached max_attempts, raises the exhaustion error; no
\* edition makes more than max_attempts selection attempts.
C12_CollidingAttempt ==
    /\ [](tries <= max_attempts)
    /\ [][ /\ Collides =>
                 /\ generated_dnas' = generated_dnas
                 /\ images' = images
                 /\ metadata' = None
                 /\ generated_characters' = generated_characters
                 /\ edition' = edition
                 /\ tries' = tries
                 /\ pc' = "attempt"
           /\ pc = "attempt" =>
                 /\ edition' = edition
                 /\ generated_dnas' = generated_dnas
                 /\ IF tries < max_attempts
                    THEN pc' = "select" /\ tries' = tries + 1 /\ exc' = "none"
                    ELSE pc' = "raise" /\ tries' = tries /\ exc' = "Exhausted" ]_vars

\* Edition 2 collided on each of its max_attempts = 2 attempts and raised the
\* exhaustion error.
C12_Witness ==
    /\ pc = "raise"
    /\ exc = "Exhausted"
    /\ edition = 2
    /\ max_attempts = 2
    /\ tries = 2
    /\ \E r \in DOMAIN built : Mapping(built[r]) = Mapping(selected_layers)

\* The configured layers before position i that have an eligible file.
PresentBefore(i) ==
    {layers_order[j] : j \in {k \in 1..(i - 1) : LayerFilesOf(catalog[layers_order[k]]) # {}}}

\* C13: during the selection of any attempt the selected layer set holds
\* exactly the layers this attempt has walked so far (none at its start), and
\* for the layer it is at every eligible file of that layer can be the one
\* chosen, whatever earlier attempts and editions chose.
C13_FullReselection ==
    pc = "select" =>
        /\ {selected_layers[i].k : i \in DOMAIN selected_layers} = PresentBefore(layer_i)
        /\ \A i \in DOMAIN selected_layers :
              selected_layers[i].v.filename \in LayerFilesOf(catalog[selected_layers[i].k])
        /\ layer_i <= Len(layers_order) =>
              \A f \in LayerFilesOf(catalog[layers_order[layer_i]]) :
                  ENABLED ( /\ SelectLayer
                            /\ selected_layers' =
                                   Append(selected_layers,
                                          [k |-> layers_order[layer_i],
                                           v |-> LayerFile(layers_order[layer_i], f)]) )

\* The second attempt of edition 2 starts from the empty set while the layer
\* it is at has two eligible files, one of them used by edition 1.
C13_Witness ==
    /\ pc = "select"
    /\ edition = 2
    /\ tries = 2
    /\ layer_i = 1
    /\ selected_layers = <<>>
    /\ Cardinality(LayerFilesOf(catalog[layers_order[1]])) = 2
    /\ built[1][1].k = layers_order[1]

\* C14: no step of a run takes a DNA out of the registry.
C14_RegistryGrows ==
    [][generated_dnas \subseteq generated_dnas']_vars

\* A run that saw two successful attempts, a colliding attempt and then a
\* compositing failure, with three DNA values in the registry at its end.
C14_Witness ==
    /\ Finished
    /\ exc = "ValueError"
    /\ edition = 3
    /\ tries = 2
    /\ Cardinality(generated_dnas) = 3

\* C15: when a file cannot be read while edition e is composited, the attempt
\* leaves no image and no record, the exception goes straight up to
\* generate_collection, which returns or lets it through, and from then on no
\* selection attempt is made for e and no edition after e is entered.
C15_ReadFailureHalts ==
    /\ [](exc \in ReadErrors =>
            /\ pc \in {"raise", "returned", "crashed"}
            /\ tries = attempt + 1
            /\ Len(generated_characters) = edition - 1
            /\ metadata = None
            /\ \A e \in edition..total_characters : ran[e] = "none" /\ images[e] = <<>>)
    /\ [][ /\ (pc = "composite" /\ exc' \in ReadErrors) =>
                 /\ pc' = "raise"
                 /\ tries' = tries /\ edition' = edition /\ attempt' = attempt
           /\ exc \in ReadErrors =>
                 /\ pc = "raise" /\ pc' = (IF IsValueError(exc) THEN "returned" ELSE "crashed")
                 /\ exc' = exc /\ tries' = tries /\ edition' = edition
                 /\ generated_characters' = generated_characters /\ images' = images ]_vars

\* Edition 1 of 3 hit an unreadable file on its first attempt, with a second
\* attempt still allowed by the cap, and the run ended there.
C15_Witness ==
    /\ pc = "crashed"
    /\ exc = "OSError"
    /\ edition = 1
    /\ total_characters = 3
    /\ tries = 1
    /\ max_attempts = 2
    /\ generated_characters = <<>>

\* C16 as stated, for a Background whose frames all carry a delay: the saved
\* file has the Background's delays frame by frame, and its loop count is the
\* Background's when the Background has one and "for ever" when it has none.
C16_TimingPreserved ==
    ( /\ pc = "gif_saved"
      /\ \A i \in DOMAIN g_file.durations : g_file.durations[i] # <<>> ) =>
        /\ g_saved.durations = g_file.durations
        /\ g_saved.loop = (IF g_file.loop = <<>> THEN <<0>> ELSE g_file.loop)

\* An entry of a selection that holds an animated file for a layer other than
\* Background.
AnimatedOverlay(entry) == entry.k # "Background" /\ entry.v.type = "gif"

\* Two selections over the same layers that differ, and differ only where both
\* hold an animated file for a layer other than Background.
DifferOnlyInAnimatedOverlays(s1, s2) ==
    /\ DOMAIN s1 = DOMAIN s2
    /\ s1 # s2
    /\ \A i \in DOMAIN s1 :
          /\ s1[i].k = s2[i].k
          /\ s1[i] # s2[i] => (AnimatedOverlay(s1[i]) /\ AnimatedOverlay(s2[i]))

\* The files an image was composited from.
SourcesOf(image) == UNION {{image[j].px[n][1] : n \in DOMAIN image[j].px} : j \in DOMAIN image}

\* C17: an animated file selected for a layer other than Background is in no
\* frame of the record's image, whichever path composited it, yet the record's
\* DNA is the digest of the selection that holds it and the attribute list has
\* its entry; two records whose selections differ only in such layers have
\* different DNA and the same image.
C17_AnimatedOverlaySkipped ==
    /\ \A r \in Records :
          \A i \in DOMAIN built[r] :
              AnimatedOverlay(built[r][i]) =>
                  /\ images[r] # <<>>
                  /\ built[r][i].v.path \notin SourcesOf(images[r])
                  /\ generated_characters[r].dna = _generate_dna_hash(built[r])
                  /\ \E a \in DOMAIN generated_characters[r].attributes :
                        generated_characters[r].attributes[a] =
                            [ trait_type |-> built[r][i].k,
                              value      |-> SplitextStem(built[r][i].v.filename) ]
    /\ \A r1, r2 \in Records :
          DifferOnlyInAnimatedOverlays(built[r1], built[r2]) =>
              /\ generated_characters[r1].dna # generated_characters[r2].dna
              /\ images[r1] = images[r2]

\* A finished run with two records that differ in an animated overlay file
\* alone and were composited by the animated path into the same two frames.
C17_Witness ==
    /\ pc = "returned"
    /\ exc = "none"
    /\ \E r1, r2 \in Records :
          /\ DifferOnlyInAnimatedOverlays(built[r1], built[r2])
          /\ images[r1] = images[r2]
          /\ ran[r1] = "gif"
          /\ Len(images[r1]) = 2

\* C18: every run ends, returned or crashed; at no point have more than
\* total_characters * max_attempts selection attempts been begun; and at the
\* end the list holds total_characters records exactly when no exception ended
\* the run, neither exhaustion nor a failure in compositing.
C18_Terminates ==
    /\ <>Finished
    /\ [](selections <= total_characters * max_attempts)
    /\ [](Finished => (Len(generated_characters) = total_characters <=> exc = "none"))

\* A run of 3 editions capped at 2 attempts that began 5 selection attempts:
\* one for edition 1, a collision and a success for edition 2, two collisions
\* for edition 3, which exhausted its cap.
C18_Witness ==
    /\ pc = "returned"
    /\ exc = "Exhausted"
    /\ total_characters = 3
    /\ max_attempts = 2
    /\ edition = 3
    /\ selections = 5

====
